---- MODULE Spec2Model ----
(***************************************************************************)
(* Model of the write-back layer of discord-guild-db-bot                   *)
(* (utils/appwriteHelpers.js): the connection gate, the document cache,    *)
(* the retry executor and the BatchUpdateManager.                          *)
(*                                                                         *)
(* Time.  Every timestamp is kept relative to the current instant, so      *)
(* Date.now() is 0 and a timestamp taken d ms ago is -d; Tick(d) shifts    *)
(* every stored timestamp and every timer by d.  Timestamps older than the *)
(* window they are compared with are clamped (they all behave alike).      *)
(***************************************************************************)
EXTENDS Integers, Sequences, FiniteSets, TLC

\* ---------------------------------------------------------------- constants
CONNECTION_CHECK_INTERVAL == 5000
MAX_RETRIES == 3
INITIAL_RETRY_DELAY == 1000
CACHE_LIFETIME == 60000
BATCH_DELAY == 100
REQUEUE_DELAY == 5000

\* ------------------------------------------------------------------- bounds
MaxBurst == 2    \* queueUpdate calls of a startup burst (before anything else)
MaxCalls == 1    \* queueUpdate calls made later, at any instant
MaxPasses == 2   \* processBatch invocations that may be suspended at once
MaxFaults == 3   \* probe failures and remote errors the environment injects
MaxSets == 2     \* documentCache.set calls per id made by the cache's callers
MaxRetryCalls == 2  \* withRetry calls made on an operation of their own
MaxChecks == 3   \* checkDatabaseConnection calls made by the health check
MaxRemovals == 1 \* GuildMemberRemove events handled

\* ------------------------------------------------------------------ domains
Users == {"A", "B", "C"}
StoreUsers == {"A", "B"}          \* entities that have a document in the store
EmptyObj == [k \in {} |-> ""]
\* the patches the callers queue: for "A" two values of one field and a
\* second field, for the others one patch
PatchesOf(userId) ==
  IF userId = "A"
  THEN { [guild |-> "g1"], [guild |-> "g2"], [weapon |-> "w1"] }
  ELSE { [guild |-> "g1"] }
ErrorCodes == {404, 500}          \* remote failures: not-found, transient
ConnectionUnavailable == [code |-> 0, message |-> "Database connection is not available"]
RemoteError(c) == [code |-> c, message |-> "remote error"]
DateNow == 0
NullTimer == 0

Min(S) == CHOOSE x \in S : \A y \in S : x <= y
Max2(a, b) == IF a >= b THEN a ELSE b

\* ------------------------------------------------------------ object spread
\* a spread lastSet the wrong way round, { ...fields, ...existing }
SpreadExistingWins(existing, fields) ==
  [k \in (DOMAIN existing) \cup (DOMAIN fields) |->
     IF k \in DOMAIN existing THEN existing[k] ELSE fields[k]]

\* { ...existing, ...fields }
Spread(existing, fields) ==
  [k \in (DOMAIN existing) \cup (DOMAIN fields) |->
     IF k \in DOMAIN fields THEN fields[k] ELSE existing[k]]

\* ------------------------------------------------- insertion-ordered JS Map
\* a Map is a sequence of [id, fields] entries with distinct ids
MapKeys(m) == { m[j].id : j \in 1..Len(m) }
MapHas(m, k) == k \in MapKeys(m)
MapIndex(m, k) == CHOOSE j \in 1..Len(m) : m[j].id = k
MapGet(m, k) == m[MapIndex(m, k)].fields
MapSet(m, k, v) ==
  IF MapHas(m, k)
  THEN [m EXCEPT ![MapIndex(m, k)] = [id |-> k, fields |-> v]]
  ELSE Append(m, [id |-> k, fields |-> v])

VARIABLES
  pendingUpdates,            \* BatchUpdateManager.pendingUpdates (a Map)
  batchTimeout,              \* BatchUpdateManager.batchTimeout: timer id or NullTimer
  timers,                    \* armed setTimeout(processBatch) timers: [id, due, delay]
  passes,                    \* suspended processBatch invocations
  isDbConnected,
  connectionCheckInProgress,
  lastConnectionCheck,
  cache,                     \* documentCache.cache: id -> [data, timestamp]
  store,                     \* the remote collection: id -> document
  faults,                    \* failures injected so far
  late,                      \* queueUpdate calls made after the startup burst
  limits,                    \* the bounds of this behaviour: [burst, passes]
  queued,                    \* history: per id, the queueUpdate calls made
  burst,                     \* history: per id, base entry and calls since it
  updateCalls,               \* history: per id, the patches of updateDocument calls
  delivered,                 \* history: <<id, field, value>> of successful updates
  sinceAbort,                \* history: ms since the last connection abort
  event,                     \* history: the step that led to this state
  lastSet,                   \* history: per id, the last documentCache.set() and their number
  returned,                  \* history: what the last documentCache.get() returned
  checks,                    \* checkDatabaseConnection calls of the health check
  retries                    \* withRetry calls made on an operation of their own

vars == << pendingUpdates, batchTimeout, timers, passes, isDbConnected,
           connectionCheckInProgress, lastConnectionCheck, cache, store, faults,
           late, limits, queued, burst, updateCalls, delivered, sinceAbort, event,
           lastSet, returned, checks, retries >>

\* the variables of the batch manager, of the connection gate, of the callers
batchVars == << pendingUpdates, batchTimeout, timers, passes, store, faults, late,
                limits, queued, burst, updateCalls, delivered, sinceAbort >>
gateVars == << isDbConnected, connectionCheckInProgress, lastConnectionCheck >>

\* the state as one record, so that a handler is a function from state to state
State ==
  [ pendingUpdates |-> pendingUpdates, batchTimeout |-> batchTimeout,
    timers |-> timers, passes |-> passes, isDbConnected |-> isDbConnected,
    connectionCheckInProgress |-> connectionCheckInProgress,
    lastConnectionCheck |-> lastConnectionCheck, cache |-> cache,
    store |-> store, faults |-> faults, late |-> late, limits |-> limits,
    queued |-> queued, burst |-> burst,
    updateCalls |-> updateCalls, delivered |-> delivered,
    sinceAbort |-> sinceAbort, event |-> event ]

Becomes(s) ==
  /\ pendingUpdates' = s.pendingUpdates
  /\ batchTimeout' = s.batchTimeout
  /\ timers' = s.timers
  /\ passes' = s.passes
  /\ isDbConnected' = s.isDbConnected
  /\ connectionCheckInProgress' = s.connectionCheckInProgress
  /\ lastConnectionCheck' = s.lastConnectionCheck
  /\ cache' = s.cache
  /\ store' = s.store
  /\ faults' = s.faults
  /\ late' = s.late
  /\ limits' = s.limits
  /\ queued' = s.queued
  /\ burst' = s.burst
  /\ updateCalls' = s.updateCalls
  /\ delivered' = s.delivered
  /\ sinceAbort' = s.sinceAbort
  /\ event' = s.event
  /\ UNCHANGED << lastSet, returned, checks, retries >>

\* event: the handler that ran (type), the entity and pass it acted on, the
\* error code it saw and how the entity ended (result)
Ev(type, id, p, code) ==
  [type |-> type, id |-> id, p |-> p, code |-> code, result |-> ""]
NoBurst == [base |-> EmptyObj, has |-> FALSE, calls |-> << >>]

\* the state after construction
Constructed ==
  /\ pendingUpdates = << >>
  /\ batchTimeout = NullTimer
  /\ timers = {}
  /\ passes = << >>
  /\ isDbConnected = FALSE
  /\ connectionCheckInProgress = FALSE
  /\ lastConnectionCheck = -CONNECTION_CHECK_INTERVAL
  /\ cache = [u \in {} |-> 0]
  /\ store = [u \in StoreUsers |-> [k \in {"$id"} |-> u]]
  /\ faults = 0
  /\ late = 0
  /\ queued = [u \in Users |-> << >>]
  /\ burst = [u \in Users |-> NoBurst]
  /\ updateCalls = [u \in Users |-> << >>]
  /\ delivered = {}
  /\ sinceAbort = REQUEUE_DELAY
  /\ event = Ev("init", "", 0, 0)
  /\ lastSet = [u \in Users |-> [doc |-> EmptyObj, age |-> 0, live |-> FALSE, n |-> 0]]
  /\ returned = EmptyObj
  /\ checks = << >>
  /\ retries = << >>

\* one call at a time, overlapping passes, every kind of failure
Init ==
  /\ Constructed
  /\ limits = [burst |-> 1, passes |-> MaxPasses]

\* a startup burst, one pass at a time, connection failures only
InitBurst ==
  /\ Constructed
  /\ limits = [burst |-> MaxBurst, passes |-> 1]

\* ------------------------------------------------------------------ timers
\* setTimeout: a fresh handle, never one that batchTimeout still holds
NewTimerId(s) ==
  Min({ n \in 1..(Cardinality(s.timers) + 2) :
          n # s.batchTimeout /\ \A t \in s.timers : t.id # n })

SetTimeout(s, delay) == [id |-> NewTimerId(s), due |-> delay, delay |-> delay]

\* ------------------------------------------------------------- queueUpdate
QueueUpdateOn(s, userId, fields) ==
  LET existing == IF MapHas(s.pendingUpdates, userId)
                  THEN MapGet(s.pendingUpdates, userId) ELSE EmptyObj
      s1 == [s EXCEPT
               !.pendingUpdates = MapSet(@, userId, Spread(existing, fields)),
               !.queued[userId] = Append(@, [fields |-> fields,
                                   had |-> MapHas(s.pendingUpdates, userId)]),
               !.burst[userId].calls = Append(@, fields),
               !.event = Ev("queueUpdate", userId, 0, 0)]
      t == SetTimeout(s1, BATCH_DELAY)
  IN IF s1.batchTimeout = NullTimer
     THEN [s1 EXCEPT !.batchTimeout = t.id, !.timers = @ \cup {t}]
     ELSE s1

TotalCalls == LET RECURSIVE Sum(_)
                  Sum(S) == IF S = {} THEN 0
                            ELSE LET u == CHOOSE x \in S : TRUE
                                 IN Len(queued[u]) + Sum(S \ {u})
              IN Sum(Users)

\* the callers: a burst of calls at startup, then calls at any instant
InBurst ==
  late = 0 /\ event.type \in {"init", "queueUpdate"} /\ TotalCalls < limits.burst

QueueUpdate(userId, fields) ==
  /\ InBurst \/ late < MaxCalls
  /\ Becomes([QueueUpdateOn(State, userId, fields) EXCEPT
                !.late = IF InBurst THEN @ ELSE @ + 1])

\* ---------------------------------------------------------- DocumentCache
\* a set() that stores nothing
CacheSetLost(c, userId, document) == c

\* a set() that keeps the document of an entry it already holds
CacheSetKeepsOld(c, userId, document) ==
  [u \in (DOMAIN c) \cup {userId} |->
     IF u # userId THEN c[u]
     ELSE [data |-> IF u \in DOMAIN c THEN c[u].data ELSE document,
           timestamp |-> DateNow]]

CacheSet(c, userId, document) ==
  [u \in (DOMAIN c) \cup {userId} |->
     IF u = userId THEN [data |-> document, timestamp |-> DateNow] ELSE c[u]]

\* a delete() that removes nothing
CacheDeleteNone(c, userId) == c

CacheDelete(c, userId) == [u \in (DOMAIN c) \ {userId} |-> c[u]]

\* an expiry test that already fails at the lifetime
CacheExpiredAtLifetime(entry) == DateNow - entry.timestamp >= CACHE_LIFETIME

CacheExpired(entry) == DateNow - entry.timestamp > CACHE_LIFETIME

\* get(): the value returned (EmptyObj for null) and the cache it leaves
CacheGetValue(c, userId) ==
  IF userId \notin DOMAIN c THEN EmptyObj
  ELSE IF CacheExpired(c[userId]) THEN EmptyObj
  ELSE c[userId].data

\* a get() that restamps the entry it returns
CacheGetEffectTouch(c, userId) ==
  IF userId \notin DOMAIN c THEN c
  ELSE IF CacheExpired(c[userId]) THEN CacheDelete(c, userId)
  ELSE [c EXCEPT ![userId].timestamp = DateNow]

CacheGetEffect(c, userId) ==
  IF userId \in DOMAIN c /\ CacheExpired(c[userId])
  THEN CacheDelete(c, userId) ELSE c

\* ------------------------------------------------------------ processBatch
RemoveAt(q, p) == [j \in 1..(Len(q) - 1) |-> IF j < p THEN q[j] ELSE q[j + 1]]

EndPass(s, p) == [s EXCEPT !.passes = RemoveAt(@, p)]

CurrentId(s, p) == s.passes[p].updates[s.passes[p].i].id
CurrentFields(s, p) == s.passes[p].updates[s.passes[p].i].fields

\* the re-queue loop of the catch block, folded over the snapshot
RECURSIVE Requeue(_, _, _, _)
Requeue(pending, updates, userId, j) ==
  IF j > Len(updates) THEN pending
  ELSE LET r == updates[j]
           next == IF r.id = userId \/ ~MapHas(pending, r.id)
                   THEN MapSet(pending, r.id, r.fields) ELSE pending
       IN Requeue(next, updates, userId, j + 1)

RequeueWrites(pending, updates, userId) ==
  { updates[j].id : j \in { k \in 1..Len(updates) :
       updates[k].id = userId \/ ~MapHas(pending, updates[k].id) } }

RECURSIVE StartEntity(_, _)

\* a loop that stops after the entity it has just handled
NextEntityEndsPass(s, p) == EndPass(s, p)

NextEntity(s, p) ==
  IF s.passes[p].i >= Len(s.passes[p].updates)
  THEN EndPass(s, p)
  ELSE StartEntity([s EXCEPT !.passes[p].i = @ + 1], p)

\* a catch block that takes every error for a lost connection
BatchCatchAlwaysRequeue(s, p, error) ==
  LET userId == CurrentId(s, p)
      updates == s.passes[p].updates
      s1 == [s EXCEPT !.event.id = userId, !.event.code = error.code,
                      !.pendingUpdates = Requeue(@, updates, userId, 1),
                      !.sinceAbort = 0,
                      !.event.result = IF error.code = 0 THEN "abort"
                                       ELSE "entityError"]
      t == SetTimeout(s1, REQUEUE_DELAY)
  IN EndPass([s1 EXCEPT !.batchTimeout = t.id, !.timers = @ \cup {t}], p)

\* a catch block that rethrows what is not a lost connection: the pass ends
\* with the error
BatchCatchRethrows(s, p, error) ==
  IF error.message = ConnectionUnavailable.message
  THEN BatchCatchAlwaysRequeue(s, p, error)
  ELSE EndPass([s EXCEPT !.event.id = CurrentId(s, p),
                         !.event.code = error.code,
                         !.event.result = "thrown"], p)

\* catch (error) of processBatch
BatchCatch(s, p, error) ==
  LET userId == CurrentId(s, p)
      updates == s.passes[p].updates
      marked == [s EXCEPT !.event.id = userId, !.event.code = error.code]
  IN IF error.message = ConnectionUnavailable.message
     THEN LET written == RequeueWrites(s.pendingUpdates, updates, userId)
              s1 == [marked EXCEPT
                       !.pendingUpdates = Requeue(@, updates, userId, 1),
                       !.burst = [u \in Users |->
                                    IF u \in written
                                    THEN [base |-> MapGet(updates, u), has |-> TRUE,
                                          calls |-> << >>]
                                    ELSE @[u]],
                       !.sinceAbort = 0,
                       !.event.result = "abort"]
              t == SetTimeout(s1, REQUEUE_DELAY)
          IN EndPass([s1 EXCEPT !.batchTimeout = t.id,
                                !.timers = @ \cup {t}], p)
     ELSE NextEntity([marked EXCEPT !.event.result = "entityError"], p)

\* a catch block that does not retry a lost connection
RetryCatchGateFatal(s, p, error) ==
  IF error.code = 400 \/ error.code = 404
     \/ error.message = ConnectionUnavailable.message
  THEN BatchCatch(s, p, error)
  ELSE IF s.passes[p].attempt < MAX_RETRIES
  THEN [s EXCEPT !.passes[p].pc = "backoff",
                 !.passes[p].due = s.passes[p].delay]
  ELSE BatchCatch(s, p, error)

\* a catch block that waits and retries once more than MAX_RETRIES allows
RetryCatchOneMore(s, p, error) ==
  IF error.code = 400 \/ error.code = 404
  THEN BatchCatch(s, p, error)
  ELSE IF s.passes[p].attempt <= MAX_RETRIES
  THEN [s EXCEPT !.passes[p].pc = "backoff",
                 !.passes[p].due = s.passes[p].delay]
  ELSE BatchCatch(s, p, error)

\* catch (error) of withRetry
RetryCatch(s, p, error) ==
  IF error.code = 400 \/ error.code = 404
  THEN BatchCatch(s, p, error)
  ELSE IF s.passes[p].attempt < MAX_RETRIES
  THEN [s EXCEPT !.passes[p].pc = "backoff",
                 !.passes[p].due = s.passes[p].delay]
  ELSE BatchCatch(s, p, error)

\* the patch an updateDocument call carries, sent instead from the live
\* pendingUpdates entry when there is one
IssueRemoteLive(s, p) ==
  LET userId == CurrentId(s, p)
      s1 == [s EXCEPT !.passes[p].pc = "remote", !.passes[p].sent = @ + 1]
      live == IF MapHas(s.pendingUpdates, userId)
              THEN MapGet(s.pendingUpdates, userId) ELSE EmptyObj
  IN IF s.passes[p].phase = "fetch" THEN s1
     ELSE [s1 EXCEPT !.updateCalls[userId] =
                        Append(@, Spread(CurrentFields(s, p), live))]

\* the remote call of the current phase is sent (sent: history, the remote
\* calls of this withRetry call)
IssueRemote(s, p) ==
  LET userId == CurrentId(s, p)
      s1 == [s EXCEPT !.passes[p].pc = "remote", !.passes[p].sent = @ + 1]
  IN IF s.passes[p].phase = "fetch" THEN s1
     ELSE [s1 EXCEPT !.updateCalls[userId] = Append(@, CurrentFields(s, p))]

\* withDatabaseCheck once its checkDatabaseConnection has returned connected
\* (gateFailed: history, the attempts of this withRetry call on which it threw)
WithDatabaseCheck(s, p, connected) ==
  IF ~connected
  THEN RetryCatch([s EXCEPT !.passes[p].gateFailed = @ + 1], p,
                  ConnectionUnavailable)
  ELSE IssueRemote(s, p)

\* one attempt of withRetry: operation() is withDatabaseCheck(...), which
\* first runs checkDatabaseConnection up to its await
Attempt(s, p) ==
  IF s.connectionCheckInProgress THEN WithDatabaseCheck(s, p, s.isDbConnected)
  ELSE IF DateNow - s.lastConnectionCheck < CONNECTION_CHECK_INTERVAL
  THEN WithDatabaseCheck(s, p, s.isDbConnected)
  ELSE [s EXCEPT !.connectionCheckInProgress = TRUE,
                 !.passes[p].pc = "probe"]

\* a withRetry call starts: attempt 1, the initial delay
WithRetry(s, p, phase, doc) ==
  Attempt([s EXCEPT !.passes[p].phase = phase, !.passes[p].doc = doc,
                    !.passes[p].attempt = 1,
                    !.passes[p].gateFailed = 0,
                    !.passes[p].sent = 0,
                    !.passes[p].delay = INITIAL_RETRY_DELAY], p)

\* a loop body that looks every entity up remotely
StartEntityAlwaysFetch(s, p) ==
  WithRetry([s EXCEPT !.cache = CacheGetEffect(@, CurrentId(s, p))],
            p, "fetch", EmptyObj)

\* the body of the for loop for the entity at position i
StartEntity(s, p) ==
  LET userId == CurrentId(s, p)
      cachedDoc == CacheGetValue(s.cache, userId)
      s1 == [s EXCEPT !.cache = CacheGetEffect(@, userId)]
  IN IF cachedDoc # EmptyObj
     THEN WithRetry(s1, p, "cachedUpdate", cachedDoc)
     ELSE WithRetry(s1, p, "fetch", EmptyObj)

NewPass(updates) ==
  [updates |-> updates, i |-> 1, phase |-> "fetch", pc |-> "start",
   attempt |-> 1, delay |-> INITIAL_RETRY_DELAY, due |-> 0, doc |-> EmptyObj,
   gateFailed |-> 0, sent |-> 0]

\* a processBatch() that takes its snapshot and keeps batchTimeout
ProcessBatchKeepsHandle(s) ==
  IF Len(s.pendingUpdates) = 0 THEN [s EXCEPT !.event.result = "empty"]
  ELSE LET updates == s.pendingUpdates
           s1 == [s EXCEPT !.pendingUpdates = << >>,
                           !.passes = Append(@, NewPass(updates)),
                           !.burst = [u \in Users |-> NoBurst],
                           !.event.result = "snapshot"]
       IN StartEntity(s1, Len(s1.passes))

\* processBatch() up to its first suspension
ProcessBatch(s) ==
  IF Len(s.pendingUpdates) = 0 THEN [s EXCEPT !.event.result = "empty"]
  ELSE LET updates == s.pendingUpdates
           s1 == [s EXCEPT !.pendingUpdates = << >>,
                           !.batchTimeout = NullTimer,
                           !.passes = Append(@, NewPass(updates)),
                           !.burst = [u \in Users |-> NoBurst],
                           !.event.result = "snapshot"]
       IN StartEntity(s1, Len(s1.passes))

\* ------------------------------------------------------------------ actions
\* a flush timer fires: () => this.processBatch()
FireTimer(t) ==
  /\ t \in timers
  /\ t.due = 0
  /\ Len(pendingUpdates) = 0 \/ Len(passes) < limits.passes
  /\ Becomes(ProcessBatch([State EXCEPT !.timers = @ \ {t},
                                        !.event = Ev("timer", "", 0, t.delay)]))

\* databases.listCollections() of a pass settles; checkDatabaseConnection
\* returns and withDatabaseCheck goes on
ProbeReturn(p, ok) ==
  /\ p \in 1..Len(passes)
  /\ passes[p].pc = "probe"
  /\ ok \/ faults < MaxFaults
  /\ LET s1 == IF ok
               THEN [State EXCEPT !.isDbConnected = TRUE,
                                  !.lastConnectionCheck = DateNow]
               ELSE [State EXCEPT !.isDbConnected = FALSE,
                                  !.faults = @ + 1]
         s2 == [s1 EXCEPT !.connectionCheckInProgress = FALSE,
                          !.event = Ev("probe", CurrentId(State, p), p, 0)]
     IN Becomes(WithDatabaseCheck(s2, p, s2.isDbConnected))

Documents(s, userId) ==
  IF userId \in DOMAIN s.store THEN << s.store[userId] >> ELSE << >>

\* listDocuments / updateDocument of a pass resolves
RemoteOk(p) ==
  /\ p \in 1..Len(passes)
  /\ passes[p].pc = "remote"
  /\ LET userId == CurrentId(State, p)
         fields == CurrentFields(State, p)
         s0 == [State EXCEPT !.event = Ev("remote", userId, p, 0)]
     IN IF passes[p].phase = "fetch"
        THEN LET documents == Documents(s0, userId)
             IN IF Len(documents) > 0
                THEN Becomes(WithRetry([s0 EXCEPT !.event.result = "fetched"],
                                       p, "update", documents[1]))
                ELSE Becomes(NextEntity([s0 EXCEPT !.event.result = "skipped"], p))
        ELSE LET doc == passes[p].doc
                 s1 == [s0 EXCEPT
                          !.store = [u \in DOMAIN @ |->
                                       IF @[u]["$id"] = doc["$id"]
                                       THEN Spread(@[u], fields) ELSE @[u]],
                          !.delivered = @ \cup
                             { << userId, k, fields[k] >> : k \in DOMAIN fields },
                          !.cache = CacheSet(@, userId, Spread(doc, fields)),
                          !.event.result = "updated"]
             IN Becomes(NextEntity(s1, p))

\* listDocuments / updateDocument of a pass rejects with an error code
RemoteFail(p, c) ==
  /\ p \in 1..Len(passes)
  /\ passes[p].pc = "remote"
  /\ faults < MaxFaults
  /\ Becomes(RetryCatch([State EXCEPT !.faults = @ + 1,
                           !.event = Ev("remote", CurrentId(State, p), p, c)],
                        p, RemoteError(c)))

\* the backoff wait of withRetry ends: delay *= 2, next attempt
BackoffFire(p) ==
  /\ p \in 1..Len(passes)
  /\ passes[p].pc = "backoff"
  /\ passes[p].due = 0
  /\ Becomes(Attempt([State EXCEPT !.passes[p].delay = @ * 2,
                                   !.passes[p].attempt = @ + 1,
                                   !.event = Ev("backoff", CurrentId(State, p), p, 0)],
                     p))

\* time passes
Dues ==
  { t.due : t \in timers } \cup
  { passes[p].due : p \in { q \in 1..Len(passes) : passes[q].pc = "backoff" } }

\* the instants at which a comparison with Date.now() changes its outcome
Thresholds ==
  Dues \cup { CONNECTION_CHECK_INTERVAL + lastConnectionCheck }
       \cup { CACHE_LIFETIME + 1 + cache[u].timestamp : u \in DOMAIN cache }

\* time advances to the next such instant, never past a due timer
TickSteps ==
  IF 0 \in Dues THEN {}
  ELSE LET ahead == { d \in Thresholds : d > 0 }
       IN IF ahead = {} THEN {} ELSE { Min(ahead) }

Shift(s, d) ==
  [s EXCEPT
     !.timers = { [t EXCEPT !.due = @ - d] : t \in @ },
     !.passes = [p \in DOMAIN @ |->
                   IF @[p].pc = "backoff" THEN [@[p] EXCEPT !.due = @ - d] ELSE @[p]],
     !.lastConnectionCheck = Max2(@ - d, -CONNECTION_CHECK_INTERVAL),
     !.cache = [u \in DOMAIN @ |->
                  [@[u] EXCEPT !.timestamp = Max2(@ - d, -(CACHE_LIFETIME + 1))]],
     !.sinceAbort = IF @ + d > REQUEUE_DELAY THEN REQUEUE_DELAY ELSE @ + d,
     !.event = Ev("tick", "", 0, 0)]

Tick(d) ==
  /\ d \in TickSteps
  /\ Becomes(Shift(State, d))

Next ==
  \/ \E userId \in Users : \E fields \in PatchesOf(userId) :
        QueueUpdate(userId, fields)
  \/ \E t \in timers : FireTimer(t)
  \/ \E p \in 1..MaxPasses : ProbeReturn(p, TRUE)
  \/ \E p \in 1..MaxPasses : ProbeReturn(p, FALSE)
  \/ \E p \in 1..MaxPasses : RemoteOk(p)
  \/ \E p \in 1..MaxPasses, c \in ErrorCodes : RemoteFail(p, c)
  \/ \E p \in 1..MaxPasses : BackoffFire(p)
  \/ \E d \in TickSteps : Tick(d)

Spec == Init /\ [][Next]_vars

NextBurst ==
  \/ \E userId \in Users : \E fields \in PatchesOf(userId) :
        QueueUpdate(userId, fields)
  \/ \E t \in timers : FireTimer(t)
  \/ \E p \in 1..MaxPasses : ProbeReturn(p, TRUE)
  \/ \E p \in 1..MaxPasses : ProbeReturn(p, FALSE)
  \/ \E p \in 1..MaxPasses : RemoteOk(p)
  \/ \E p \in 1..MaxPasses : BackoffFire(p)
  \/ \E d \in TickSteps : Tick(d)

SpecBurst == InitBurst /\ [][NextBurst]_vars

\* the same, with the scheduling of the event loop: a due timer fires, a
\* pending promise settles, time does not stop
InitWake ==
  /\ Constructed
  /\ limits = [burst |-> 1, passes |-> 1]

SpecWake ==
  /\ InitWake /\ [][NextBurst]_vars
  /\ WF_vars(\E t \in timers : FireTimer(t))
  /\ WF_vars(\E p \in 1..MaxPasses : ProbeReturn(p, TRUE))
  /\ WF_vars(\E p \in 1..MaxPasses : RemoteOk(p))
  /\ WF_vars(\E p \in 1..MaxPasses : BackoffFire(p))
  /\ WF_vars(\E d \in TickSteps : Tick(d))

\* ------------------------------------------------- one pass to its end
\* a burst of calls, then no further call: one pass at a time, every kind of
\* failure, and the scheduling of the event loop (a due timer fires, a
\* pending remote call or probe returns, time does not stop)
NextPass ==
  \/ \E userId \in Users : \E fields \in PatchesOf(userId) :
        InBurst /\ QueueUpdate(userId, fields)
  \/ \E t \in timers : FireTimer(t)
  \/ \E p \in 1..MaxPasses : ProbeReturn(p, TRUE)
  \/ \E p \in 1..MaxPasses : ProbeReturn(p, FALSE)
  \/ \E p \in 1..MaxPasses : RemoteOk(p)
  \/ \E p \in 1..MaxPasses, c \in ErrorCodes : RemoteFail(p, c)
  \/ \E p \in 1..MaxPasses : BackoffFire(p)
  \/ \E d \in TickSteps : Tick(d)

SpecPass ==
  /\ InitBurst /\ [][NextPass]_vars
  /\ WF_vars(\E t \in timers : FireTimer(t))
  /\ WF_vars(\E p \in 1..MaxPasses : ProbeReturn(p, TRUE))
  /\ WF_vars(\E p \in 1..MaxPasses : RemoteOk(p))
  /\ WF_vars(\E p \in 1..MaxPasses : BackoffFire(p))
  /\ WF_vars(\E d \in TickSteps : Tick(d))

\* ------------------------------------------- calls less than 100 ms apart
\* the callers of queueUpdate with a gap of half the batch delay between
\* calls: time advances by 50 ms while a freshly armed 100 ms timer waits
HalfDelay == BATCH_DELAY \div 2

HalfTick ==
  /\ \E t \in timers : t.delay = BATCH_DELAY /\ t.due = BATCH_DELAY
  /\ \A d \in Dues : d > HalfDelay
  /\ Becomes(Shift(State, HalfDelay))

NextDebounce ==
  \/ \E userId \in Users : \E fields \in PatchesOf(userId) :
        QueueUpdate(userId, fields)
  \/ \E t \in timers : FireTimer(t)
  \/ \E p \in 1..MaxPasses : ProbeReturn(p, TRUE)
  \/ \E p \in 1..MaxPasses : RemoteOk(p)
  \/ HalfTick
  \/ \E d \in TickSteps : Tick(d)

SpecDebounce == InitBurst /\ [][NextDebounce]_vars

\* ------------------------------------------- a member leaves during a pass
\* the GuildMemberRemove handler (index.js) next to the batch manager: it
\* reads the cache, awaits withRetry(updateDocument(existingDoc.$id, nulls))
\* and then calls documentCache.invalidate.  Its withRetry call is kept in
\* retries as one awaited operation that in the end resolves or rejects (its
\* attempts only take time).  History fields: whether an update of the same
\* id was in flight in a pass when invalidate ran, and how many update calls
\* had been sent for the id by then.
ClearedFields == [guild |-> "null", weapon |-> "null"]

UpdateInFlight(u) ==
  \E p \in 1..Len(passes) :
    /\ passes[p].pc = "remote"
    /\ passes[p].phase \in {"cachedUpdate", "update"}
    /\ CurrentId(State, p) = u

RemoveFrame ==
  UNCHANGED << pendingUpdates, batchTimeout, timers, passes, faults, late,
               limits, queued, burst, updateCalls, delivered, sinceAbort,
               gateVars, lastSet, returned, checks >>

\* client.on(GuildMemberRemove) up to its await
MemberRemove(u) ==
  /\ Len(retries) < MaxRemovals
  /\ LET existingDoc == CacheGetValue(cache, u)
     IN retries' = Append(retries,
                     [id |-> u, existingDoc |-> existingDoc,
                      pc |-> IF existingDoc # EmptyObj THEN "remote" ELSE "done",
                      invalidated |-> FALSE, inFlight |-> FALSE, calls |-> 0])
  /\ cache' = CacheGetEffect(cache, u)
  /\ event' = Ev("memberRemove", u, Len(retries) + 1, 0)
  /\ UNCHANGED store
  /\ RemoveFrame

\* the handler's update resolves: documentCache.invalidate(member.id)
RemoveResolves(h) ==
  /\ h \in 1..Len(retries)
  /\ retries[h].pc = "remote"
  /\ LET r == retries[h]
     IN /\ store' = [v \in DOMAIN store |->
                       IF store[v]["$id"] = r.existingDoc["$id"]
                       THEN Spread(store[v], ClearedFields) ELSE store[v]]
        /\ cache' = CacheDelete(cache, r.id)
        /\ retries' = [retries EXCEPT ![h] =
                         [r EXCEPT !.pc = "done", !.invalidated = TRUE,
                                   !.inFlight = UpdateInFlight(r.id),
                                   !.calls = Len(updateCalls[r.id])]]
        /\ event' = Ev("invalidate", r.id, h, 0)
  /\ RemoveFrame

\* the handler's update rejects on its last attempt: catch, log, no invalidate
RemoveRejects(h) ==
  /\ h \in 1..Len(retries)
  /\ retries[h].pc = "remote"
  /\ retries' = [retries EXCEPT ![h].pc = "failed"]
  /\ event' = Ev("removeFailed", retries[h].id, h, 500)
  /\ UNCHANGED << store, cache >>
  /\ RemoveFrame

NextRemove ==
  \/ \E userId \in Users : \E fields \in PatchesOf(userId) :
        QueueUpdate(userId, fields)
  \/ \E t \in timers : FireTimer(t)
  \/ \E p \in 1..MaxPasses : ProbeReturn(p, TRUE)
  \/ \E p \in 1..MaxPasses : RemoteOk(p)
  \/ \E d \in TickSteps : Tick(d)
  \/ \E u \in StoreUsers : MemberRemove(u)
  \/ \E h \in 1..MaxRemovals : RemoveResolves(h)
  \/ \E h \in 1..MaxRemovals : RemoveRejects(h)

SpecRemove == InitWake /\ [][NextRemove]_vars

\* ------------------------------------------------ DocumentCache on its own
\* the callers of documentCache (index.js): set, get, invalidate, clear at any
\* instant, for two ids and two documents each
CacheUsers == {"A", "B"}
DocsOf(u) == { [k \in {"$id", "guild"} |-> IF k = "$id" THEN u ELSE g] :
                 g \in {"g1", "g2"} }
\* the ages at which get() is looked at: 59 s, the lifetime, 1 ms and 1 s past it
CacheInstants == { CACHE_LIFETIME - 1000, CACHE_LIFETIME,
                   CACHE_LIFETIME + 1, CACHE_LIFETIME + 1000 }
MaxAge == CACHE_LIFETIME + 1000

CacheClear(c) == [u \in {} |-> 0]

CacheSetCall(u, d) ==
  /\ lastSet[u].n < MaxSets
  /\ cache' = CacheSet(cache, u, d)
  /\ lastSet' = [lastSet EXCEPT ![u] = [doc |-> d, age |-> 0, live |-> TRUE,
                                        n |-> @.n + 1]]
  /\ event' = Ev("set", u, 0, 0)
  /\ UNCHANGED << returned, checks, retries, batchVars, gateVars >>

CacheGetCall(u) ==
  /\ returned' = CacheGetValue(cache, u)
  /\ cache' = CacheGetEffect(cache, u)
  /\ event' = Ev("get", u, 0, 0)
  /\ UNCHANGED << lastSet, checks, retries, batchVars, gateVars >>

CacheInvalidateCall(u) ==
  /\ cache' = CacheDelete(cache, u)
  /\ lastSet' = [lastSet EXCEPT ![u].live = FALSE, ![u].age = 0]
  /\ event' = Ev("invalidate", u, 0, 0)
  /\ UNCHANGED << returned, checks, retries, batchVars, gateVars >>

CacheClearCall ==
  /\ cache' = CacheClear(cache)
  /\ lastSet' = [u \in Users |-> [lastSet[u] EXCEPT !.live = FALSE, !.age = 0]]
  /\ event' = Ev("clear", "", 0, 0)
  /\ UNCHANGED << returned, checks, retries, batchVars, gateVars >>

\* time advances until some stored entry reaches one of the instants
CacheTickSteps ==
  UNION { { x - lastSet[u].age : x \in { y \in CacheInstants : y > lastSet[u].age } } :
            u \in { v \in CacheUsers : lastSet[v].live } }

CacheTick(d) ==
  /\ d \in CacheTickSteps
  /\ cache' = Shift(State, d).cache
  /\ lastSet' = [u \in Users |->
                   [lastSet[u] EXCEPT !.age = IF ~lastSet[u].live THEN 0
                                             ELSE IF @ + d > MaxAge THEN MaxAge
                                             ELSE @ + d]]
  /\ event' = Ev("tick", "", 0, 0)
  /\ UNCHANGED << returned, checks, retries, batchVars, gateVars >>

NextCache ==
  \/ \E u \in CacheUsers : \E d \in DocsOf(u) : CacheSetCall(u, d)
  \/ \E u \in CacheUsers : CacheGetCall(u)
  \/ \E u \in CacheUsers : CacheInvalidateCall(u)
  \/ CacheClearCall
  \/ \E d \in CacheTickSteps : CacheTick(d)

SpecCache == Init /\ [][NextCache]_vars

\* ---------------------------------------------------- withRetry on its own
\* withRetry(operation, context) for an operation that resolves, or rejects
\* with an error of any code, as the environment chooses on every attempt.
\* A value and an error carry the attempt that produced them.
RetryCodes == {0, 400, 404, 500}     \* 0: an error without a code
NoError == [code |-> -1, attempt |-> 0]
NoValue == [attempt |-> 0]
RetryStep == INITIAL_RETRY_DELAY \div 2

\* a test that lets code 400 be retried
NonRetryableOnly404(error) == error.code = 404

\* error.code === 400 || error.code === 404
NonRetryable(error) == error.code = 400 \/ error.code = 404

\* a loop that goes on after the last attempt
MoreAttemptsOneTooMany(attempt) == attempt <= MAX_RETRIES

\* attempt < MAX_RETRIES
MoreAttempts(attempt) == attempt < MAX_RETRIES

\* a backoff that never grows
NextDelaySame(delay) == delay

\* delay *= 2
NextDelay(delay) == delay * 2

\* an assignment that keeps the first error
LastErrorKeepsFirst(lastError, error) == IF lastError = NoError THEN error ELSE lastError

\* lastError = error
LastError(lastError, error) == error

\* let lastError; let delay = INITIAL_RETRY_DELAY; attempt = 1; operation()
NewRetry ==
  [attempt |-> 1, delay |-> INITIAL_RETRY_DELAY, lastError |-> NoError,
   pc |-> "operation", due |-> 0,
   invoked |-> 1, outcomes |-> << >>, waits |-> << >>, slept |-> 0,
   value |-> NoValue, error |-> NoError, logged |-> FALSE]

RetryFrame == UNCHANGED << lastSet, returned, checks, cache, batchVars, gateVars >>

WithRetryCall ==
  /\ Len(retries) < MaxRetryCalls
  /\ retries' = Append(retries, NewRetry)
  /\ event' = Ev("withRetry", "", Len(retries) + 1, 0)
  /\ RetryFrame

\* return await operation()
OperationResolves(c) ==
  /\ c \in 1..Len(retries)
  /\ retries[c].pc = "operation"
  /\ LET r == retries[c]
         v == [attempt |-> r.attempt]
     IN retries' = [retries EXCEPT ![c] =
                      [r EXCEPT !.pc = "returned", !.value = v,
                                !.outcomes = Append(@, [ok |-> TRUE, code |-> 0,
                                                        attempt |-> r.attempt])]]
  /\ event' = Ev("resolve", "", c, 0)
  /\ RetryFrame

\* catch (error) of withRetry, and the end of the loop after the last attempt
OperationRejects(c, code) ==
  /\ c \in 1..Len(retries)
  /\ retries[c].pc = "operation"
  /\ LET r == retries[c]
         error == [code |-> code, attempt |-> r.attempt]
         r1 == [r EXCEPT !.lastError = LastError(@, error),
                         !.outcomes = Append(@, [ok |-> FALSE, code |-> code,
                                                 attempt |-> r.attempt])]
     IN retries' = [retries EXCEPT ![c] =
          IF NonRetryable(error)
          THEN [r1 EXCEPT !.pc = "thrown", !.error = error]
          ELSE IF MoreAttempts(r.attempt)
          THEN [r1 EXCEPT !.pc = "wait", !.due = r.delay, !.slept = 0]
          ELSE IF r.attempt + 1 <= MAX_RETRIES
          THEN [r1 EXCEPT !.attempt = @ + 1, !.invoked = @ + 1]
          ELSE [r1 EXCEPT !.pc = "thrown", !.error = r1.lastError,
                          !.logged = TRUE]]
  /\ event' = Ev("reject", "", c, code)
  /\ RetryFrame

\* the setTimeout(resolve, delay) of the backoff fires: delay *= 2, attempt++,
\* operation() again
WaitEnds(c) ==
  /\ c \in 1..Len(retries)
  /\ retries[c].pc = "wait"
  /\ retries[c].due = 0
  /\ LET r == retries[c]
     IN retries' = [retries EXCEPT ![c] =
          IF r.attempt + 1 <= MAX_RETRIES
          THEN [r EXCEPT !.delay = NextDelay(@), !.attempt = @ + 1,
                         !.pc = "operation", !.invoked = @ + 1,
                         !.waits = Append(@, r.slept)]
          ELSE [r EXCEPT !.delay = NextDelay(@), !.attempt = @ + 1,
                         !.pc = "thrown", !.error = r.lastError,
                         !.logged = TRUE, !.waits = Append(@, r.slept)]]
  /\ event' = Ev("waitEnds", "", c, 0)
  /\ RetryFrame

Waiting == { c \in 1..Len(retries) : retries[c].pc = "wait" }

\* time passes, never past the end of a wait
RetryTick ==
  /\ Waiting # {}
  /\ \A c \in Waiting : retries[c].due >= RetryStep
  /\ retries' = [c \in DOMAIN retries |->
                   IF c \in Waiting
                   THEN [retries[c] EXCEPT !.due = @ - RetryStep,
                                           !.slept = @ + RetryStep]
                   ELSE retries[c]]
  /\ event' = Ev("tick", "", 0, 0)
  /\ RetryFrame

NextRetry ==
  \/ WithRetryCall
  \/ \E c \in 1..MaxRetryCalls : OperationResolves(c)
  \/ \E c \in 1..MaxRetryCalls : \E code \in RetryCodes : OperationRejects(c, code)
  \/ \E c \in 1..MaxRetryCalls : WaitEnds(c)
  \/ RetryTick

SpecRetry == Init /\ [][NextRetry]_vars

\* ------------------------------------- checkDatabaseConnection on its own
\* the health check (healthCheck.js) calls checkDatabaseConnection at any
\* instant, also while an earlier call still awaits its probe.  A call is
\* recorded with the path it took, whether it invoked the probe, what it
\* returned, and how long after the previous call it was made.
GateStep == CONNECTION_CHECK_INTERVAL \div 5

\* a check that does not look at the in-flight flag
CheckPathNoFlight(inProgress, last) ==
  IF DateNow - last < CONNECTION_CHECK_INTERVAL THEN "cached" ELSE "probe"

\* a check that takes the window for running whenever no probe is in flight
CheckPathAlwaysCached(inProgress, last) ==
  IF inProgress THEN "inflight" ELSE "cached"

\* checkDatabaseConnection up to its await
CheckPath(inProgress, last) ==
  IF inProgress THEN "inflight"
  ELSE IF DateNow - last < CONNECTION_CHECK_INTERVAL THEN "cached"
  ELSE "probe"

\* a probe whose failure leaves the flag set (no finally)
ProbeOutcomeNoFinally(ok) ==
  [isDbConnected |-> ok,
   lastConnectionCheck |-> IF ok THEN DateNow ELSE lastConnectionCheck,
   connectionCheckInProgress |-> ~ok,
   logged |-> ~ok]

\* a catch block that leaves isDbConnected as it was
ProbeOutcomeKeepsConnected(ok) ==
  [isDbConnected |-> IF ok THEN TRUE ELSE isDbConnected,
   lastConnectionCheck |-> IF ok THEN DateNow ELSE lastConnectionCheck,
   connectionCheckInProgress |-> FALSE,
   logged |-> ~ok]

\* a catch block that stamps lastConnectionCheck like the try block
ProbeOutcomeStampsFailure(ok) ==
  [isDbConnected |-> ok,
   lastConnectionCheck |-> DateNow,
   connectionCheckInProgress |-> FALSE,
   logged |-> ~ok]

\* try / catch / finally of checkDatabaseConnection
ProbeOutcome(ok) ==
  [isDbConnected |-> ok,
   lastConnectionCheck |-> IF ok THEN DateNow ELSE lastConnectionCheck,
   connectionCheckInProgress |-> FALSE,
   logged |-> ~ok]

GateFrame == UNCHANGED << lastSet, returned, retries, cache, batchVars >>

SinceLastCall ==
  IF checks = << >> THEN CONNECTION_CHECK_INTERVAL ELSE checks[Len(checks)].age

\* status.appwrite = await checkDatabaseConnection(databases)
CheckCall ==
  /\ Len(checks) < MaxChecks
  /\ LET path == CheckPath(connectionCheckInProgress, lastConnectionCheck)
         call == [path |-> path, probed |-> path = "probe",
                  pc |-> IF path = "probe" THEN "probe" ELSE "returned",
                  ret |-> IF path = "probe" THEN FALSE ELSE isDbConnected,
                  gap |-> SinceLastCall, age |-> 0]
     IN /\ checks' = Append([c \in DOMAIN checks |-> [checks[c] EXCEPT !.age = 0]],
                            call)
        /\ connectionCheckInProgress' =
              IF path = "probe" THEN TRUE ELSE connectionCheckInProgress
  /\ event' = Ev("check", "", Len(checks) + 1, 0)
  /\ UNCHANGED << isDbConnected, lastConnectionCheck >>
  /\ GateFrame

\* listCollections of call c resolves (ok) or rejects; the call returns
ProbeSettles(c, ok) ==
  /\ c \in 1..Len(checks)
  /\ checks[c].pc = "probe"
  /\ LET g == ProbeOutcome(ok)
     IN /\ isDbConnected' = g.isDbConnected
        /\ lastConnectionCheck' = g.lastConnectionCheck
        /\ connectionCheckInProgress' = g.connectionCheckInProgress
        /\ checks' = [checks EXCEPT ![c].pc = "returned",
                                    ![c].ret = g.isDbConnected]
        /\ event' = [Ev("probe", "", c, IF ok THEN 0 ELSE 500) EXCEPT
                       !.result = IF g.logged THEN "logged" ELSE ""]
  /\ GateFrame

\* time passes
GateTick ==
  /\ checks # << >>
  /\ lastConnectionCheck > -CONNECTION_CHECK_INTERVAL
       \/ checks[Len(checks)].age < CONNECTION_CHECK_INTERVAL
  /\ lastConnectionCheck' =
        Max2(lastConnectionCheck - GateStep, -CONNECTION_CHECK_INTERVAL)
  /\ checks' = [checks EXCEPT ![Len(checks)].age =
                   IF @ + GateStep > CONNECTION_CHECK_INTERVAL
                   THEN CONNECTION_CHECK_INTERVAL ELSE @ + GateStep]
  /\ event' = Ev("tick", "", 0, 0)
  /\ UNCHANGED << isDbConnected, connectionCheckInProgress >>
  /\ GateFrame

NextGate ==
  \/ CheckCall
  \/ \E c \in 1..MaxChecks : ProbeSettles(c, TRUE)
  \/ \E c \in 1..MaxChecks : ProbeSettles(c, FALSE)
  \/ GateTick

SpecGate == Init /\ [][NextGate]_vars

\* ------------------------------------------- withDatabaseCheck on its own
\* withDatabaseCheck(databases, operation) for an operation that resolves
\* with a value or rejects with an error, as the environment chooses.  A call
\* is recorded like a checkDatabaseConnection call, with the number of times
\* it invoked the operation, what the operation did and what the call gave.
Values == {"v1", "v2"}
NoResult == [kind |-> "none"]
ValueResult(v) == [kind |-> "value", value |-> v]
ErrorResult(e) == [kind |-> "error", error |-> e]

\* a wrapper that calls the operation whatever the check returned
AfterCheckAlwaysInvokes(connected) ==
  [pc |-> "operation", invoked |-> 1, result |-> NoResult]

\* if (!(await checkDatabaseConnection(databases))) throw ...; return operation()
AfterCheck(connected) ==
  IF ~connected
  THEN [pc |-> "thrown", invoked |-> 0, result |-> ErrorResult(ConnectionUnavailable)]
  ELSE [pc |-> "operation", invoked |-> 1, result |-> NoResult]

\* withDatabaseCheck(databases, operation) is called
GuardedCall ==
  /\ Len(checks) < MaxChecks
  /\ LET path == CheckPath(connectionCheckInProgress, lastConnectionCheck)
         a == AfterCheck(isDbConnected)
         call == [path |-> path, probed |-> path = "probe",
                  ret |-> IF path = "probe" THEN FALSE ELSE isDbConnected,
                  gap |-> SinceLastCall, age |-> 0,
                  pc |-> IF path = "probe" THEN "probe" ELSE a.pc,
                  invoked |-> IF path = "probe" THEN 0 ELSE a.invoked,
                  outcome |-> NoResult,
                  result |-> IF path = "probe" THEN NoResult ELSE a.result]
     IN /\ checks' = Append([c \in DOMAIN checks |-> [checks[c] EXCEPT !.age = 0]],
                            call)
        /\ connectionCheckInProgress' =
              IF path = "probe" THEN TRUE ELSE connectionCheckInProgress
  /\ event' = Ev("guarded", "", Len(checks) + 1, 0)
  /\ UNCHANGED << isDbConnected, lastConnectionCheck >>
  /\ GateFrame

\* the probe of call c settles; checkDatabaseConnection returns to the wrapper
GuardedProbeSettles(c, ok) ==
  /\ c \in 1..Len(checks)
  /\ checks[c].pc = "probe"
  /\ LET g == ProbeOutcome(ok)
         a == AfterCheck(g.isDbConnected)
     IN /\ isDbConnected' = g.isDbConnected
        /\ lastConnectionCheck' = g.lastConnectionCheck
        /\ connectionCheckInProgress' = g.connectionCheckInProgress
        /\ checks' = [checks EXCEPT ![c].ret = g.isDbConnected,
                                    ![c].pc = a.pc,
                                    ![c].invoked = a.invoked,
                                    ![c].result = a.result]
  /\ event' = Ev("probe", "", c, IF ok THEN 0 ELSE 500)
  /\ GateFrame

\* the operation of call c resolves with v: return operation()
GuardedResolves(c, v) ==
  /\ c \in 1..Len(checks)
  /\ checks[c].pc = "operation"
  /\ checks' = [checks EXCEPT ![c].pc = "returned",
                              ![c].outcome = ValueResult(v),
                              ![c].result = ValueResult(v)]
  /\ event' = Ev("resolve", "", c, 0)
  /\ UNCHANGED gateVars
  /\ GateFrame

\* the operation of call c rejects with an error of code code
GuardedRejects(c, code) ==
  /\ c \in 1..Len(checks)
  /\ checks[c].pc = "operation"
  /\ checks' = [checks EXCEPT ![c].pc = "thrown",
                              ![c].outcome = ErrorResult(RemoteError(code)),
                              ![c].result = ErrorResult(RemoteError(code))]
  /\ event' = Ev("reject", "", c, code)
  /\ UNCHANGED gateVars
  /\ GateFrame

NextGuard ==
  \/ GuardedCall
  \/ \E c \in 1..MaxChecks : GuardedProbeSettles(c, TRUE)
  \/ \E c \in 1..MaxChecks : GuardedProbeSettles(c, FALSE)
  \/ \E c \in 1..MaxChecks : \E v \in Values : GuardedResolves(c, v)
  \/ \E c \in 1..MaxChecks : \E code \in ErrorCodes : GuardedRejects(c, code)
  \/ GateTick

SpecGuard == Init /\ [][NextGuard]_vars

\* --------------------------------------------- checkConnections on its own
\* checkConnections(client, databases) (healthCheck.js) is called at any
\* instant.  Reading client.ws.status gives 0 (ready), another status, or
\* throws (no gateway object).  A call is recorded like a
\* checkDatabaseConnection call, with what the gateway read gave and the
\* report it returned.
GatewayReads == { ValueResult(0), ValueResult(5),
                  ErrorResult([code |-> 0, message |-> "TypeError"]) }

\* try { status.discord = client.ws.status === 0 } catch { log }
DiscordStatus(ws) == IF ws.kind = "error" THEN FALSE ELSE ws.value = 0

\* try { status.appwrite = await checkDatabaseConnection() } catch { log }
AppwriteStatus(db) == IF db.kind = "error" THEN FALSE ELSE db.value

\* a report that is healthy when either check passed
HealthReportEither(discord, appwrite) ==
  [healthy |-> discord \/ appwrite,
   status |-> [discord |-> discord, appwrite |-> appwrite]]

\* return { healthy: status.discord && status.appwrite, status }
HealthReport(discord, appwrite) ==
  [healthy |-> discord /\ appwrite,
   status |-> [discord |-> discord, appwrite |-> appwrite]]

NoReport == [healthy |-> FALSE, status |-> [discord |-> FALSE, appwrite |-> FALSE]]

\* checkConnections is called and runs up to the await of the probe, or to
\* its end when checkDatabaseConnection answers without a probe
HealthCall(ws) ==
  /\ Len(checks) < MaxChecks
  /\ LET path == CheckPath(connectionCheckInProgress, lastConnectionCheck)
         discord == DiscordStatus(ws)
         call == [path |-> path, probed |-> path = "probe",
                  pc |-> IF path = "probe" THEN "probe" ELSE "returned",
                  ret |-> IF path = "probe" THEN FALSE ELSE isDbConnected,
                  gap |-> SinceLastCall, age |-> 0,
                  ws |-> ws, discord |-> discord,
                  report |-> IF path = "probe" THEN NoReport
                             ELSE HealthReport(discord,
                                    AppwriteStatus(ValueResult(isDbConnected)))]
     IN /\ checks' = Append([c \in DOMAIN checks |-> [checks[c] EXCEPT !.age = 0]],
                            call)
        /\ connectionCheckInProgress' =
              IF path = "probe" THEN TRUE ELSE connectionCheckInProgress
  /\ event' = Ev("health", "", Len(checks) + 1, 0)
  /\ UNCHANGED << isDbConnected, lastConnectionCheck >>
  /\ GateFrame

\* the probe of call c settles; checkDatabaseConnection returns and
\* checkConnections returns its report
HealthProbeSettles(c, ok) ==
  /\ c \in 1..Len(checks)
  /\ checks[c].pc = "probe"
  /\ LET g == ProbeOutcome(ok)
     IN /\ isDbConnected' = g.isDbConnected
        /\ lastConnectionCheck' = g.lastConnectionCheck
        /\ connectionCheckInProgress' = g.connectionCheckInProgress
        /\ checks' = [checks EXCEPT
                        ![c].pc = "returned",
                        ![c].ret = g.isDbConnected,
                        ![c].report = HealthReport(checks[c].discord,
                                        AppwriteStatus(ValueResult(g.isDbConnected)))]
  /\ event' = Ev("probe", "", c, IF ok THEN 0 ELSE 500)
  /\ GateFrame

NextHealth ==
  \/ \E ws \in GatewayReads : HealthCall(ws)
  \/ \E c \in 1..MaxChecks : HealthProbeSettles(c, TRUE)
  \/ \E c \in 1..MaxChecks : HealthProbeSettles(c, FALSE)
  \/ GateTick

SpecHealth == Init /\ [][NextHealth]_vars

\* ================================================================== claims
Quiet == Len(pendingUpdates) = 0 /\ Len(passes) = 0
Quiescent == Quiet /\ timers = {}

\* the pass and the entity an abort or a per-entity failure is about
\* (evaluated in the state before the step)
FailedPass == passes[event'.p]
Aborting == event'.result = "abort"

\* ---- C1
\* the value each field gets from a base entry and the calls made after it:
\* the value of the last call that set the field, else the base's
Setters(calls, k) == { j \in 1..Len(calls) : k \in DOMAIN calls[j] }
LastWrite(base, calls) ==
  [k \in (DOMAIN base) \cup UNION { DOMAIN calls[j] : j \in 1..Len(calls) } |->
     IF Setters(calls, k) = {} THEN base[k]
     ELSE calls[CHOOSE j \in Setters(calls, k) :
                  \A m \in Setters(calls, k) : m <= j][k]]
Entries(userId) == { j \in 1..Len(pendingUpdates) : pendingUpdates[j].id = userId }

\* C1: after queueUpdate(id, patch_1) ... queueUpdate(id, patch_n) with no
\* snapshot in between, pendingUpdates holds exactly one entry for id, whose
\* every field has the value of the last call that set it (fields set by one
\* call are kept), and the entries of the other ids are what they were.
C1_MergeLastWriteWins ==
  \A u \in Users :
    IF burst[u].calls = << >> /\ ~burst[u].has
    THEN Entries(u) = {}
    ELSE /\ Cardinality(Entries(u)) = 1
         /\ MapGet(pendingUpdates, u) = LastWrite(burst[u].base, burst[u].calls)

C1_Witness ==
  /\ burst["A"].calls = << [guild |-> "g1"], [weapon |-> "w1"], [guild |-> "g2"] >>
  /\ MapGet(pendingUpdates, "A") = [guild |-> "g2", weapon |-> "w1"]
  /\ Len(pendingUpdates) = 1

\* ---- C2
C2_Scenario ==
  /\ queued["A"] = << [fields |-> [guild |-> "g1"], had |-> FALSE],
                      [fields |-> [guild |-> "g2"], had |-> TRUE] >>
  /\ faults = 0

\* C2: queueUpdate(u1,{guild:g1}) then queueUpdate(u1,{guild:g2}) before the
\* flush timer fires, with the store reachable and nothing failing: at most
\* one updateDocument call is ever made for u1 and it carries {guild:g2} (none
\* carries g1); once the flush is over exactly one was made and the cache
\* entry of u1 has guild = g2.
C2_OneUpdateLastValue ==
  C2_Scenario =>
    /\ Len(updateCalls["A"]) <= 1
    /\ \A j \in 1..Len(updateCalls["A"]) : updateCalls["A"][j] = [guild |-> "g2"]
    /\ Quiet =>
         /\ Len(updateCalls["A"]) = 1
         /\ "A" \in DOMAIN cache /\ cache["A"].data["guild"] = "g2"
         /\ event.result = "updated" => CacheGetValue(cache, "A")["guild"] = "g2"

C2_Witness ==
  /\ C2_Scenario /\ Quiet
  /\ event.result = "updated"
  /\ updateCalls["A"] = << [guild |-> "g2"] >>
  /\ CacheGetValue(cache, "A")["guild"] = "g2"

\* ---- C3
\* the field of a snapshot patch is still pending (with the snapshot's value,
\* or with a value queued since)
FieldKept(u, k, pending) ==
  /\ MapHas(pending, u)
  /\ k \in DOMAIN MapGet(pending, u)

\* C3: when the pass aborts on ConnectionUnavailable at entity B, the pass
\* ends there (no call is made for the later entities) and B and every later
\* entity of the snapshot are in pendingUpdates with the fields of their
\* snapshot patches.
C3_AbortKeepsRemaining ==
  [][ Aborting =>
        /\ passes' = RemoveAt(passes, event'.p)
        /\ \A j \in FailedPass.i..Len(FailedPass.updates) :
             \A k \in DOMAIN FailedPass.updates[j].fields :
               FieldKept(FailedPass.updates[j].id, k, pendingUpdates') ]_vars

\* ---- C4
\* C4: the abort puts back the failing entity and the entities not yet
\* processed, and no entity the pass had already handled.
C4_AbortSparesProcessed ==
  [][ Aborting =>
        \A j \in 1..(FailedPass.i - 1) :
          LET u == FailedPass.updates[j].id
          IN IF MapHas(pendingUpdates, u)
             THEN MapHas(pendingUpdates', u)
                  /\ MapGet(pendingUpdates', u) = MapGet(pendingUpdates, u)
             ELSE ~MapHas(pendingUpdates', u) ]_vars

\* ---- C5
\* C5: an entity put back by the abort that was queued again while the pass
\* ran ends with the merge of its snapshot patch and the live entry, the
\* live entry winning on shared fields.
C5_AbortMergesIntoLive ==
  [][ Aborting =>
        \A j \in FailedPass.i..Len(FailedPass.updates) :
          LET u == FailedPass.updates[j].id
          IN MapHas(pendingUpdates, u) =>
               /\ MapHas(pendingUpdates', u)
               /\ MapGet(pendingUpdates', u) =
                    Spread(FailedPass.updates[j].fields, MapGet(pendingUpdates, u)) ]_vars

\* ---- C6
\* C6: no flush pass starts less than 5000 ms after a connection abort.
C6_CooldownRespected ==
  event.result = "snapshot" => sinceAbort >= REQUEUE_DELAY

\* ---- C7
\* C7: at most one flush timer is armed.
C7_OneTimer == Cardinality(timers) <= 1

\* ---- C8
\* C8: at most one processBatch pass is between its snapshot and its end.
C8_OnePass == Len(passes) <= 1

\* ---- C9
\* C9: a lookup or update that fails with an error other than
\* ConnectionUnavailable (404 at once, 500 after the last attempt) is logged
\* as a per-entity failure; the pass goes on with the next entity of the
\* snapshot (or ends if there is none), arms no timer and re-queues nothing.
C9_EntityErrorIsolated ==
  [][ /\ (event'.type = "remote" /\ event'.code = 404)
           => event'.result = "entityError"
      /\ (event'.type = "remote" /\ event'.code = 500
           /\ FailedPass.attempt = MAX_RETRIES) => event'.result = "entityError"
      /\ event'.result = "entityError" =>
           /\ event'.code \in ErrorCodes
           /\ pendingUpdates' = pendingUpdates
           /\ timers' = timers
           /\ batchTimeout' = batchTimeout
           /\ IF FailedPass.i < Len(FailedPass.updates)
              THEN /\ Len(passes') = Len(passes)
                   /\ passes'[event'.p].updates = FailedPass.updates
                   /\ passes'[event'.p].i = FailedPass.i + 1
                   /\ passes'[event'.p].attempt = 1
              ELSE passes' = RemoveAt(passes, event'.p) ]_vars

C9_Witness ==
  /\ event.result = "entityError"
  /\ event.code = 500
  /\ Len(passes) = 1
  /\ passes[1].i = 2
  /\ passes[1].updates[1].id = event.id

\* ---- C10
\* the last value queued for a field of an entity
LastQueued(u) == LastWrite(EmptyObj, [j \in 1..Len(queued[u]) |-> queued[u][j].fields])

\* C10: once nothing is pending, running or armed any more, the last value
\* queued for every field of every entity of the store has been carried by a
\* successful update.
C10_NothingLost ==
  Quiescent =>
    \A u \in StoreUsers : \A k \in DOMAIN LastQueued(u) :
      << u, k, LastQueued(u)[k] >> \in delivered

\* ---- C11
\* the values queued for field k of entity u, in call order
QueuedValues(u, k) ==
  LET with == { j \in 1..Len(queued[u]) : k \in DOMAIN queued[u][j].fields }
  IN { << j, queued[u][j].fields[k] >> : j \in with }
\* no value was queued twice for the field, so a value names its call
DistinctValues(u, k) ==
  \A a, b \in QueuedValues(u, k) : a[2] = b[2] => a[1] = b[1]

\* C11: for one entity and one field, an update carrying an earlier-queued
\* value never succeeds after the update carrying the last-queued value: once
\* the last value queued has been lastSet, the store holds it, and when all
\* flushes are over the cache entry holds it too.
C11_CallOrder ==
  \A u \in StoreUsers : \A k \in DOMAIN LastQueued(u) :
    (DistinctValues(u, k) /\ << u, k, LastQueued(u)[k] >> \in delivered) =>
      /\ store[u][k] = LastQueued(u)[k]
      /\ (Quiescent /\ u \in DOMAIN cache /\ k \in DOMAIN cache[u].data)
           => cache[u].data[k] = LastQueued(u)[k]

\* ---- C12
\* the updateDocument call a step sends for u carries the patch u has in the
\* snapshot of the pass that sends it
SendsSnapshotPatch(u) ==
  \E q \in 1..Len(passes') :
    /\ passes'[q].pc = "remote"
    /\ passes'[q].phase # "fetch"
    /\ passes'[q].updates[passes'[q].i].id = u
    /\ updateCalls'[u] = Append(updateCalls[u], passes'[q].updates[passes'[q].i].fields)

\* C12: the snapshot is pendingUpdates as it was when the pass started and
\* pendingUpdates starts empty again; no step changes the snapshot of a
\* running pass; a queueUpdate during a pass changes pendingUpdates only;
\* every updateDocument call carries the snapshot patch of its entity; a step
\* of a pass that is not a connection abort leaves pendingUpdates alone.
C12_SnapshotIsolated ==
  [][ /\ event'.result = "snapshot" =>
           /\ passes'[Len(passes')].updates = pendingUpdates
           /\ pendingUpdates' = << >>
           /\ \A q \in 1..Len(passes) : passes'[q].updates = passes[q].updates
      /\ event'.type = "queueUpdate" =>
           /\ passes' = passes
           /\ MapHas(pendingUpdates', event'.id)
      /\ (event'.type \in {"probe", "remote", "backoff"} /\ ~Aborting) =>
           /\ pendingUpdates' = pendingUpdates
           /\ \/ passes' = RemoveAt(passes, event'.p)
              \/ /\ Len(passes') = Len(passes)
                 /\ \A q \in 1..Len(passes) : passes'[q].updates = passes[q].updates
      /\ \A u \in Users :
           updateCalls'[u] # updateCalls[u] => SendsSnapshotPatch(u) ]_vars

\* a call queued while a pass is suspended on its update; the pass then sends
\* the patch of its snapshot
C12_Witness ==
  /\ Len(passes) = 1
  /\ passes[1].pc = "remote" /\ passes[1].phase = "update"
  /\ passes[1].updates = << [id |-> "A", fields |-> [guild |-> "g1"]] >>
  /\ MapHas(pendingUpdates, "A")
  /\ MapGet(pendingUpdates, "A") = [weapon |-> "w1"]
  /\ updateCalls["A"] = << [guild |-> "g1"] >>

\* ---- C13
\* C13: for an entry stored by set(id, d) with no later set, invalidate or
\* clear of id, get(id) returns d while the entry is at most 60000 ms old and
\* returns absent (null) when it is older.
C13_CacheLifetime ==
  [][ event'.type = "get" =>
        LET u == event'.id
        IN lastSet[u].live =>
             returned' = IF lastSet[u].age <= CACHE_LIFETIME
                         THEN lastSet[u].doc ELSE EmptyObj ]_vars

\* get("A") at exactly the lifetime returns the document, after get("B") on
\* an older entry returned absent and evicted it
C13_Witness ==
  /\ event.type = "get" /\ event.id = "A"
  /\ lastSet["A"].live /\ lastSet["A"].age = CACHE_LIFETIME
  /\ returned = lastSet["A"].doc /\ returned # EmptyObj
  /\ lastSet["B"].live /\ lastSet["B"].age > CACHE_LIFETIME
  /\ "B" \notin DOMAIN cache

\* ---- C14
Settled(r) == r.pc \in {"returned", "thrown"}
\* attempt j of call r failed with an error that withRetry retries
FailedRetryable(r, j) ==
  j <= Len(r.outcomes) /\ ~r.outcomes[j].ok /\ r.outcomes[j].code \notin {400, 404}
FailedNonRetryable(r, j) ==
  j <= Len(r.outcomes) /\ ~r.outcomes[j].ok /\ r.outcomes[j].code \in {400, 404}
Succeeded(r, j) == j <= Len(r.outcomes) /\ r.outcomes[j].ok

\* C14: an operation that fails with retryable errors on attempts 1 and 2
\* and succeeds on attempt 3: withRetry returns the value of attempt 3, has
\* invoked the operation exactly 3 times and has waited 1000 ms then 2000 ms,
\* with no wait after the success.
C14_ThirdAttemptSucceeds ==
  \A c \in 1..Len(retries) :
    LET r == retries[c]
    IN (FailedRetryable(r, 1) /\ FailedRetryable(r, 2) /\ Succeeded(r, 3)) =>
         /\ r.pc = "returned"
         /\ r.value = [attempt |-> 3]
         /\ r.error = NoError
         /\ r.invoked = 3
         /\ r.waits = << INITIAL_RETRY_DELAY, 2 * INITIAL_RETRY_DELAY >>

C14_Witness ==
  /\ Len(retries) = 1
  /\ retries[1].pc = "returned"
  /\ retries[1].value = [attempt |-> 3]
  /\ retries[1].waits = << 1000, 2000 >>
  /\ retries[1].outcomes[1].code = 500 /\ retries[1].outcomes[2].code = 0

\* ---- C15
\* C15: an attempt that fails with code 400 or 404 ends the call: withRetry
\* throws that very error, the operation is not invoked again and no wait
\* follows; on the first attempt that is one invocation and no wait.
C15_NonRetryableShortCircuit ==
  \A c \in 1..Len(retries) :
    LET r == retries[c]
    IN \A j \in 1..Len(r.outcomes) :
         FailedNonRetryable(r, j) =>
           /\ j = Len(r.outcomes)
           /\ r.pc = "thrown"
           /\ r.error = [code |-> r.outcomes[j].code, attempt |-> j]
           /\ r.value = NoValue
           /\ r.invoked = j
           /\ Len(r.waits) = j - 1
           /\ ~r.logged

C15_Witness ==
  /\ Len(retries) = 2
  /\ retries[1].pc = "thrown" /\ retries[1].error = [code |-> 400, attempt |-> 1]
  /\ retries[1].invoked = 1 /\ retries[1].waits = << >>
  /\ retries[2].pc = "thrown" /\ retries[2].error = [code |-> 404, attempt |-> 2]
  /\ retries[2].invoked = 2 /\ retries[2].waits = << 1000 >>

\* ---- C16
\* C16: an operation that fails with retryable errors on all 3 attempts:
\* withRetry has invoked it exactly 3 times, has waited 1000 ms then 2000 ms
\* and not after the third failure, has logged that all attempts failed and
\* throws the error of the third attempt.
C16_ExhaustedThrowsLast ==
  \A c \in 1..Len(retries) :
    LET r == retries[c]
    IN (FailedRetryable(r, 1) /\ FailedRetryable(r, 2) /\ FailedRetryable(r, 3)) =>
         /\ r.pc = "thrown"
         /\ r.error = [code |-> r.outcomes[3].code, attempt |-> 3]
         /\ r.value = NoValue
         /\ r.invoked = 3
         /\ r.waits = << INITIAL_RETRY_DELAY, 2 * INITIAL_RETRY_DELAY >>
         /\ r.logged

C16_Witness ==
  /\ Len(retries) = 1
  /\ retries[1].pc = "thrown"
  /\ retries[1].outcomes[1].code = 500
  /\ retries[1].outcomes[2].code = 500
  /\ retries[1].error = [code |-> 0, attempt |-> 3]
  /\ retries[1].logged

\* ---- C17
\* C17: whatever the operation does, a withRetry call invokes it at most 3
\* times and waits at most twice, never invokes it after a success, and ends
\* either returning the value of its first (and only) successful attempt or
\* throwing an error the operation raised, never with neither or both.
C17_OneOutcome ==
  \A c \in 1..Len(retries) :
    LET r == retries[c]
        n == Len(r.outcomes)
    IN /\ r.invoked <= MAX_RETRIES
       /\ Len(r.waits) <= MAX_RETRIES - 1
       /\ r.pc \in {"operation", "wait", "returned", "thrown"}
       /\ r.pc = "wait" => r.invoked < MAX_RETRIES
       /\ \A j \in 1..n : Succeeded(r, j) => j = n /\ r.pc = "returned"
       /\ r.invoked = IF Settled(r) \/ r.pc = "wait" THEN n ELSE n + 1
       /\ ~Settled(r) => r.value = NoValue /\ r.error = NoError
       /\ r.pc = "returned" =>
            /\ Succeeded(r, n) /\ r.value = [attempt |-> n]
            /\ r.error = NoError
       /\ r.pc = "thrown" =>
            /\ r.value = NoValue
            /\ \E j \in 1..n : ~r.outcomes[j].ok
                  /\ r.error = [code |-> r.outcomes[j].code, attempt |-> j]
            /\ (n = MAX_RETRIES \/ FailedNonRetryable(r, n))

\* one call that returned on its second attempt beside one that threw after
\* its third
C17_Witness ==
  /\ Len(retries) = 2
  /\ retries[1].pc = "returned" /\ retries[1].value = [attempt |-> 2]
  /\ retries[2].pc = "thrown" /\ retries[2].invoked = 3
  /\ Len(retries[2].waits) = 2

\* ---- C18
\* C18: of two checkDatabaseConnection calls made less than 5000 ms apart, at
\* most one invokes the probe, whatever the probe's outcome, and the second
\* returns the boolean the first returned.
C18_WindowOneProbe ==
  \A j \in 2..Len(checks) :
    checks[j].gap < CONNECTION_CHECK_INTERVAL =>
      /\ ~(checks[j - 1].probed /\ checks[j].probed)
      /\ (checks[j - 1].pc = "returned" /\ checks[j].pc = "returned")
           => checks[j].ret = checks[j - 1].ret

\* ---- C19
InFlight == { c \in 1..Len(checks) : checks[c].pc = "probe" }
\* what the last completed probe resolved isDbConnected to (false before any)
Resolved == { c \in 1..Len(checks) : checks[c].probed /\ checks[c].pc = "returned" }
LastResolved ==
  IF Resolved = {} THEN FALSE
  ELSE checks[CHOOSE c \in Resolved : \A d \in Resolved : d <= c].ret

\* C19: at most one probe is in flight; a call made while a probe is in
\* flight invokes no probe, leaves isDbConnected, lastConnectionCheck and the
\* flag as they are and returns what the last completed probe resolved.
C19_OneProbeInFlight ==
  [][ /\ Cardinality(InFlight') <= 1
      /\ (event'.type = "check" /\ connectionCheckInProgress) =>
           LET call == checks'[Len(checks')]
           IN /\ ~call.probed
              /\ call.pc = "returned"
              /\ call.ret = isDbConnected
              /\ call.ret = LastResolved
              /\ InFlight' = InFlight
              /\ UNCHANGED gateVars ]_vars

\* a probe resolved true, a second probe is in flight, and a call made
\* meanwhile has returned true without probing
C19_Witness ==
  /\ Len(checks) = 3
  /\ checks[1].probed /\ checks[1].pc = "returned" /\ checks[1].ret
  /\ checks[2].pc = "probe"
  /\ checks[3].path = "inflight" /\ checks[3].ret /\ ~checks[3].probed
  /\ connectionCheckInProgress

\* ---- C20
\* C20: connectionCheckInProgress is true exactly while a probe started by a
\* call has not settled; it is false once that call has returned, after a
\* success as after a failure; a call made with no probe in flight and
\* outside the 5000 ms window runs the probe.
C20_FlagNeverStuck ==
  [][ /\ connectionCheckInProgress' <=> InFlight' # {}
      /\ event'.type = "probe" =>
           /\ checks'[event'.p].pc = "returned"
           /\ ~connectionCheckInProgress'
      /\ (event'.type = "check" /\ InFlight = {}
            /\ DateNow - lastConnectionCheck >= CONNECTION_CHECK_INTERVAL) =>
           /\ checks'[Len(checks')].probed
           /\ connectionCheckInProgress' ]_vars

\* a probe failed, the flag is clear, and the next call probes again
C20_Witness ==
  /\ Len(checks) = 2
  /\ checks[1].probed /\ checks[1].pc = "returned" /\ ~checks[1].ret
  /\ event.type = "check"
  /\ checks[2].pc = "probe" /\ connectionCheckInProgress

\* ---- C21
\* C21: withDatabaseCheck invokes the operation exactly when
\* checkDatabaseConnection returned true: on false the call throws the
\* ConnectionUnavailable error and the operation is never invoked; on true
\* the operation is invoked exactly once and the call gives the very value
\* or error the operation gave.
C21_GateGuardsOperation ==
  \A c \in 1..Len(checks) :
    LET r == checks[c]
    IN /\ r.pc = "probe" => r.invoked = 0 /\ r.result = NoResult
       /\ (r.pc # "probe" /\ ~r.ret) =>
            /\ r.pc = "thrown"
            /\ r.invoked = 0
            /\ r.outcome = NoResult
            /\ r.result = ErrorResult(ConnectionUnavailable)
       /\ (r.pc # "probe" /\ r.ret) =>
            /\ r.invoked = 1
            /\ r.result = r.outcome
            /\ r.pc = "operation" <=> r.outcome = NoResult
            /\ r.pc = "returned" <=> r.outcome.kind = "value"
            /\ r.pc = "thrown" <=> r.outcome.kind = "error"

\* one call refused by the gate, one that returned the operation's value and
\* one that threw the operation's error
C21_Witness ==
  /\ Len(checks) = 3
  /\ ~checks[1].ret /\ checks[1].result = ErrorResult(ConnectionUnavailable)
  /\ checks[2].ret /\ checks[2].result = ValueResult("v2")
  /\ checks[3].ret /\ checks[3].result = ErrorResult(RemoteError(500))

\* ---- C22
\* C22: a checkDatabaseConnection call that ran the probe returns and does
\* not throw: after a probe that succeeded isDbConnected is true,
\* lastConnectionCheck is the current time and the call returns true; after
\* a probe that threw isDbConnected is false, the failure is logged and the
\* call returns false.
C22_ProbeOutcomes ==
  [][ event'.type = "probe" =>
        LET c == event'.p
        IN /\ checks[c].pc = "probe"
           /\ checks'[c].pc = "returned"
           /\ IF event'.code = 0
              THEN /\ isDbConnected'
                   /\ lastConnectionCheck' = DateNow
                   /\ checks'[c].ret
                   /\ event'.result # "logged"
              ELSE /\ ~isDbConnected'
                   /\ ~checks'[c].ret
                   /\ event'.result = "logged" ]_vars

\* a probe succeeded, and a later one has just failed
C22_Witness ==
  /\ Len(checks) = 2
  /\ checks[1].probed /\ checks[1].pc = "returned" /\ checks[1].ret
  /\ checks[2].probed /\ checks[2].pc = "returned" /\ ~checks[2].ret
  /\ event.type = "probe" /\ event.result = "logged"
  /\ ~isDbConnected

\* ---- C23
\* the entries of every id but u are the same in both caches
OthersKept(c1, c2, u) ==
  /\ (DOMAIN c2) \ {u} = (DOMAIN c1) \ {u}
  /\ \A v \in (DOMAIN c1) \ {u} : c2[v] = c1[v]

\* C23: set(id, d) stores d stamped with the current time, also over an
\* existing entry; get(id) on an unexpired entry returns its document and
\* leaves the cache as it is, timestamp included; get(id) on an expired entry
\* removes that entry and no other.
C23_ExpiryFromLastSet ==
  [][ LET u == event'.id
      IN /\ event'.type = "set" =>
              /\ u \in DOMAIN cache'
              /\ cache'[u] = [data |-> lastSet'[u].doc, timestamp |-> DateNow]
              /\ OthersKept(cache, cache', u)
         /\ (event'.type = "get" /\ u \in DOMAIN cache) =>
              IF DateNow - cache[u].timestamp <= CACHE_LIFETIME
              THEN returned' = cache[u].data /\ cache' = cache
              ELSE /\ returned' = EmptyObj
                   /\ u \notin DOMAIN cache'
                   /\ OthersKept(cache, cache', u) ]_vars

\* get("A") 59 s after the second set("A", ...) returns the second document,
\* while the entry of "B" is older than the lifetime and still stored
C23_Witness ==
  /\ event.type = "get" /\ event.id = "A"
  /\ lastSet["A"].n = 2 /\ lastSet["A"].live
  /\ "A" \in DOMAIN cache /\ cache["A"].timestamp = DateNow - (CACHE_LIFETIME - 1000)
  /\ returned = lastSet["A"].doc
  /\ "B" \in DOMAIN cache /\ DateNow - cache["B"].timestamp > CACHE_LIFETIME

\* ---- C24
\* C24: after invalidate(id) or clear(), get(id) returns absent until the
\* next set(id, ...); invalidate(id) removes the entry of id and leaves every
\* other entry as it is; clear() leaves no entry; on an id that is not cached
\* both leave the cache as it is.
C24_InvalidateAndClear ==
  [][ LET u == event'.id
      IN /\ (event'.type = "get" /\ ~lastSet[u].live) =>
              returned' = EmptyObj /\ cache' = cache
         /\ event'.type = "invalidate" =>
              /\ u \notin DOMAIN cache'
              /\ OthersKept(cache, cache', u)
              /\ u \notin DOMAIN cache => cache' = cache
         /\ event'.type = "clear" =>
              /\ DOMAIN cache' = {}
              /\ DOMAIN cache = {} => cache' = cache ]_vars

\* get("B") returns absent after "B" was set and then removed, while "A" is
\* still stored
C24_Witness ==
  /\ event.type = "get" /\ event.id = "B"
  /\ lastSet["B"].n = 1 /\ ~lastSet["B"].live
  /\ returned = EmptyObj
  /\ "B" \notin DOMAIN cache
  /\ "A" \in DOMAIN cache /\ lastSet["A"].live

\* ---- C25
\* base document and patch, field by field: the patch's value where it has one
MergedDocument(base, patch) ==
  [k \in (DOMAIN base) \cup (DOMAIN patch) |->
     IF k \in DOMAIN patch THEN patch[k] ELSE base[k]]
SameEntry(c1, c2, u) ==
  (u \in DOMAIN c1 <=> u \in DOMAIN c2) /\ (u \in DOMAIN c1 => c2[u] = c1[u])
\* every patch field the cache holds was carried by an update that succeeded
CacheHoldsDelivered ==
  \A u \in DOMAIN cache :
    \A k \in (DOMAIN cache[u].data) \ {"$id"} :
      << u, k, cache[u].data[k] >> \in delivered

\* C25: when the update of id with patch p succeeds in a pass, the cache
\* entry of id becomes the pass's base document merged with p, stamped with
\* the current time; when the lookup or the update of id fails, the cache
\* entry of id is left as it is; no step but a successful update writes or
\* adds a cache entry, so the cache holds no patch field that was not
\* delivered.
C25_CacheAfterUpdate ==
  /\ []CacheHoldsDelivered
  /\ [][ /\ event'.result = "updated" =>
              LET u == event'.id
                  pass == FailedPass
              IN /\ u \in DOMAIN cache'
                 /\ cache'[u] = [data |-> MergedDocument(pass.doc,
                                            pass.updates[pass.i].fields),
                                 timestamp |-> DateNow]
         /\ event'.result \in {"entityError", "abort"} =>
              SameEntry(cache, cache', event'.id)
         /\ event'.type # "tick" =>
              \A u \in DOMAIN cache' :
                \/ event'.result = "updated" /\ event'.id = u
                \/ u \in DOMAIN cache /\ cache'[u] = cache[u] ]_vars

\* a cache hit was the base: the entry of "A" holds the field of an earlier
\* update and the field of the update that has just succeeded
C25_Witness ==
  /\ event.result = "updated" /\ event.id = "A"
  /\ Len(updateCalls["A"]) = 2
  /\ updateCalls["A"][1] # updateCalls["A"][2]
  /\ "A" \in DOMAIN cache
  /\ cache["A"].timestamp = DateNow
  /\ cache["A"].data = MergedDocument(MergedDocument(store["A"], updateCalls["A"][1]),
                                      updateCalls["A"][2])
  /\ faults > 0

\* ---- C26
\* documentCache.get(u) would return a document in this state
CacheHit(u) ==
  u \in DOMAIN cache /\ DateNow - cache[u].timestamp <= CACHE_LIFETIME
\* the pass q of the next state begins the entity u: resolved from the cache
\* on a hit, by a remote lookup otherwise
ResolvedCacheFirst(q, u) ==
  /\ passes'[q].updates[passes'[q].i].id = u
  /\ IF CacheHit(u)
     THEN passes'[q].phase = "cachedUpdate" /\ passes'[q].doc = cache[u].data
     ELSE passes'[q].phase = "fetch" /\ passes'[q].doc = EmptyObj

\* C26: a pass resolves the target of an entity cache-first.  On a cache hit
\* the entity goes straight to its update with the cached document and no
\* lookup is made for it; on a miss (absent or expired) a lookup is made,
\* retried by withRetry, and the update takes the first document returned;
\* the update changes only the stored document with the internal id of that
\* base document.
C26_CacheFirst ==
  [][ /\ event'.result = "snapshot" =>
           ResolvedCacheFirst(Len(passes'), pendingUpdates[1].id)
      /\ (/\ event'.result \in {"updated", "skipped", "entityError"}
          /\ FailedPass.i < Len(FailedPass.updates)) =>
           /\ Len(passes') = Len(passes)
           /\ passes'[event'.p].i = FailedPass.i + 1
           /\ ResolvedCacheFirst(event'.p, FailedPass.updates[FailedPass.i + 1].id)
      /\ event'.result = "fetched" =>
           /\ FailedPass.phase = "fetch"
           /\ passes'[event'.p].phase = "update"
           /\ passes'[event'.p].doc = store[event'.id]
      /\ event'.result = "skipped" => FailedPass.phase = "fetch"
      /\ event'.result = "updated" =>
           /\ FailedPass.phase \in {"cachedUpdate", "update"}
           /\ \A v \in DOMAIN store :
                store'[v] # store[v] => store[v]["$id"] = FailedPass.doc["$id"]
      /\ (/\ event'.type = "remote" /\ event'.code = 500
          /\ FailedPass.phase = "fetch" /\ FailedPass.attempt < MAX_RETRIES) =>
           /\ passes'[event'.p].pc = "backoff"
           /\ passes'[event'.p].phase = "fetch"
      /\ (Len(passes') = Len(passes) /\ event'.result # "snapshot") =>
           \A q \in 1..Len(passes) :
             (passes'[q].i = passes[q].i /\ passes[q].phase # "fetch") =>
               passes'[q].phase = passes[q].phase /\ passes'[q].doc = passes[q].doc
    ]_vars

\* a pass has found its first entity in the cache and sent its update
C26_Witness ==
  /\ event.result = "snapshot"
  /\ Len(passes) = 1
  /\ passes[1].phase = "cachedUpdate" /\ passes[1].pc = "remote"
  /\ passes[1].doc = cache[passes[1].updates[1].id].data
  /\ passes[1].doc["$id"] = passes[1].updates[1].id

\* ---- C27
\* C27: when the lookup of an entity that is not cached returns no document,
\* the pass skips it: no update call is made for it, its cache entry stays
\* absent, its patch is not put back in pendingUpdates, and the pass goes on
\* with the next entity (or ends after the last).
C27_SkipUnknown ==
  /\ [](updateCalls["C"] = << >> /\ "C" \notin DOMAIN cache)
  /\ [][ event'.result = "skipped" =>
           LET u == event'.id
               pass == FailedPass
           IN /\ pass.phase = "fetch" /\ pass.updates[pass.i].id = u
              /\ u \notin DOMAIN store
              /\ updateCalls'[u] = updateCalls[u]
              /\ u \notin DOMAIN cache /\ u \notin DOMAIN cache'
              /\ pendingUpdates' = pendingUpdates
              /\ timers' = timers /\ batchTimeout' = batchTimeout
              /\ IF pass.i < Len(pass.updates)
                 THEN /\ Len(passes') = Len(passes)
                      /\ passes'[event'.p].i = pass.i + 1
                      /\ passes'[event'.p].pc \in {"probe", "remote", "backoff"}
                 ELSE Len(passes') = Len(passes) - 1 ]_vars

\* "C" has no document: it was skipped and the pass went on with "A"
C27_Witness ==
  /\ event.result = "skipped" /\ event.id = "C"
  /\ Len(passes) = 1 /\ passes[1].i = 2
  /\ passes[1].updates[1].id = "C"
  /\ updateCalls["C"] = << >>
  /\ ~MapHas(pendingUpdates, "C")

\* ---- C28
\* C28: the batch is processed after 100 ms of no new updates: every
\* queueUpdate call leaves the 100 ms flush timer with the whole 100 ms still
\* to run, so the flush does not fire while calls keep arriving less than
\* 100 ms apart and fires 100 ms after the last call of the burst.
C28_FlushAfterLastCall ==
  event.type = "queueUpdate" =>
    \A t \in timers :
      (t.id = batchTimeout /\ t.delay = BATCH_DELAY) => t.due = BATCH_DELAY

\* ---- C29
\* C29: no lost wake-up: whenever pendingUpdates is not empty, batchTimeout
\* holds the handle of a timer that is armed and has not fired yet, so a
\* flush is always on its way for the queued patches; batchTimeout never
\* holds the handle of a fired timer while patches are pending.
HandleArmed ==
  Len(pendingUpdates) > 0 =>
    /\ batchTimeout # NullTimer
    /\ \E t \in timers : t.id = batchTimeout
\* the model allows no further pass to start: a timer is due and as many
\* passes as the model follows at once are suspended
AtPassLimit ==
  Len(passes) >= limits.passes /\ \E t \in timers : t.due = 0

C29_NoLostWakeup ==
  /\ []HandleArmed
  /\ (Len(pendingUpdates) > 0) ~> (Len(pendingUpdates) = 0 \/ AtPassLimit)

\* after an abort: patches are pending again, batchTimeout holds the 5000 ms
\* timer, and a 100 ms timer armed during the pass is still running
C29_Witness ==
  /\ event.result = "abort"
  /\ Len(pendingUpdates) > 0
  /\ Cardinality(timers) = 2
  /\ \E t \in timers : t.id = batchTimeout /\ t.delay = REQUEUE_DELAY
  /\ \E t \in timers : t.id # batchTimeout /\ t.delay = BATCH_DELAY

\* ---- C30
\* the wait withRetry makes after its attempt a
BackoffAfter(a) == IF a = 1 THEN INITIAL_RETRY_DELAY ELSE 2 * INITIAL_RETRY_DELAY

\* the attempt on which the aborting step evaluated the gate (a step that
\* ends a backoff wait begins the next attempt), and the attempts of the
\* call on which the gate has failed, this one included
AbortAttempt ==
  IF event'.type = "backoff" THEN FailedPass.attempt + 1 ELSE FailedPass.attempt
AbortGateFailures == FailedPass.gateFailed + 1

\* C30 as stated: a pass aborts and re-queues only after the connection gate
\* has failed on all 3 attempts of the withRetry call.
C30_AbortAfterThreeGateFailures ==
  [][ Aborting =>
        AbortAttempt = MAX_RETRIES /\ AbortGateFailures = MAX_RETRIES ]_vars

\* C30, amended: withRetry retries the ConnectionUnavailable error of
\* withDatabaseCheck.  A gate that fails on attempt 1 or 2 is followed by a
\* wait of 1000 ms or 2000 ms and by another attempt that evaluates the gate
\* again, with no abort and no re-queue; when the gate passes on an attempt
\* the remote call is sent; the pass aborts and re-queues exactly when the
\* gate fails on attempt 3, whatever made attempts 1 and 2 fail.
C30_GateRetried ==
  /\ [](\A q \in 1..Len(passes) :
          /\ passes[q].attempt \in 1..MAX_RETRIES
          /\ passes[q].gateFailed <=
               IF passes[q].pc = "backoff" THEN passes[q].attempt
               ELSE passes[q].attempt - 1
          /\ passes[q].pc = "backoff" =>
               /\ passes[q].attempt < MAX_RETRIES
               /\ passes[q].delay = BackoffAfter(passes[q].attempt)
               /\ passes[q].due <= passes[q].delay)
  /\ [][ /\ Aborting =>
              /\ AbortAttempt = MAX_RETRIES
              /\ ~isDbConnected'
              /\ MapHas(pendingUpdates', event'.id)
         /\ event'.type = "probe" =>
              LET p == event'.p
                  a == FailedPass.attempt
              IN IF isDbConnected'
                 THEN /\ passes'[p].pc = "remote"
                      /\ passes'[p].attempt = a
                      /\ passes'[p].gateFailed = FailedPass.gateFailed
                 ELSE IF a < MAX_RETRIES
                 THEN /\ ~Aborting
                      /\ pendingUpdates' = pendingUpdates
                      /\ passes'[p].pc = "backoff"
                      /\ passes'[p].due = BackoffAfter(a)
                      /\ passes'[p].attempt = a
                      /\ passes'[p].gateFailed = FailedPass.gateFailed + 1
                 ELSE Aborting
         /\ (event'.type = "backoff" /\ ~Aborting) =>
              /\ passes'[event'.p].attempt = FailedPass.attempt + 1
              /\ passes'[event'.p].pc \in {"probe", "remote", "backoff"}
              /\ passes'[event'.p].pc = "backoff" =>
                   passes'[event'.p].gateFailed = FailedPass.gateFailed + 1
       ]_vars

\* the gate failed on attempts 1 and 2 and has just passed on attempt 3: the
\* remote call is sent
C30_Witness ==
  /\ event.type = "probe" /\ isDbConnected
  /\ Len(passes) = 1
  /\ passes[1].attempt = MAX_RETRIES /\ passes[1].gateFailed = 2
  /\ passes[1].pc = "remote"
  /\ Len(pendingUpdates) = 0

NoProbeCompleted == \A c \in 1..Len(checks) : checks[c].probed => checks[c].pc = "probe"

\* C32: until a probe has completed isDbConnected is false and
\* lastConnectionCheck has its initial value; the first call runs the probe;
\* a withDatabaseCheck call made while that first probe is in flight gets
\* false, throws ConnectionUnavailable and never calls its operation, and
\* this outcome stays when the probe then settles.
C32_ColdStart ==
  /\ [](NoProbeCompleted =>
          ~isDbConnected /\ lastConnectionCheck = -CONNECTION_CHECK_INTERVAL)
  /\ [](Len(checks) > 0 => checks[1].path = "probe")
  /\ [][ /\ (event'.type = "guarded" /\ NoProbeCompleted /\ Len(checks) > 0) =>
              LET r == checks'[event'.p]
              IN /\ r.path = "inflight" /\ ~r.ret
                 /\ r.pc = "thrown" /\ r.invoked = 0
                 /\ r.result = ErrorResult(ConnectionUnavailable)
         /\ \A c \in 1..Len(checks) :
              (checks[c].pc = "thrown" /\ checks[c].invoked = 0) =>
                /\ checks'[c].pc = "thrown" /\ checks'[c].invoked = 0
                /\ checks'[c].result = checks[c].result
                /\ checks'[c].ret = checks[c].ret ]_vars

\* the second call was made while the first probe was in flight and failed
\* with ConnectionUnavailable; the first probe has succeeded since
C32_Witness ==
  /\ Len(checks) = 2
  /\ checks[1].path = "probe" /\ checks[1].ret /\ checks[1].invoked = 1
  /\ checks[2].path = "inflight" /\ checks[2].gap = 0
  /\ checks[2].pc = "thrown" /\ checks[2].invoked = 0
  /\ checks[2].result = ErrorResult(ConnectionUnavailable)
  /\ isDbConnected

\* ---- C33
\* C33: an invalidate(id) that runs while a pass has an update of id in
\* flight is not undone by that pass: once no pass is left, and as long as no
\* update call has been sent for id after the invalidate, get(id) returns
\* absent.
C33_InvalidateSurvivesPass ==
  \A h \in 1..Len(retries) :
    LET r == retries[h]
    IN (/\ r.invalidated /\ r.inFlight
        /\ Len(passes) = 0
        /\ Len(updateCalls[r.id]) = r.calls) =>
         CacheGetValue(cache, r.id) = EmptyObj

\* ---- C34
\* the ids of a snapshot are distinct
DistinctIds(updates) ==
  \A j, k \in 1..Len(updates) : updates[j].id = updates[k].id => j = k

\* C34: every pass ends when every remote call and probe returns; a pass
\* goes through its snapshot in order, one entity after the other and none
\* twice; for an entity it makes one lookup call sequence (on a cache miss)
\* and one update call sequence, each of at most 3 remote calls.
C34_PassTerminates ==
  /\ [](\A q \in 1..Len(passes) :
          /\ passes[q].i \in 1..Len(passes[q].updates)
          /\ DistinctIds(passes[q].updates)
          /\ passes[q].attempt \in 1..MAX_RETRIES
          /\ passes[q].sent <= passes[q].attempt)
  /\ [][ (Len(passes') = Len(passes) /\ event'.result # "snapshot") =>
           \A q \in 1..Len(passes) :
             LET a == passes[q]
                 b == passes'[q]
             IN /\ b.updates = a.updates
                /\ b.i \in {a.i, a.i + 1}
                /\ b.i = a.i =>
                     \/ b.phase = a.phase /\ b.sent \in {a.sent, a.sent + 1}
                     \/ a.phase = "fetch" /\ b.phase = "update" /\ b.sent <= 1
                /\ b.i = a.i + 1 => b.sent <= 1 ]_vars
  /\ (Len(passes) > 0) ~> (Len(passes) = 0)

\* the update of the second entity of a snapshot is sent for the third
\* time, after two failures
C34_Witness ==
  /\ Len(passes) = 1
  /\ Len(passes[1].updates) = 2 /\ passes[1].i = 2
  /\ passes[1].phase = "update" /\ passes[1].pc = "remote"
  /\ passes[1].attempt = MAX_RETRIES /\ passes[1].sent = MAX_RETRIES

\* ---- C35
\* this step raises an error in a pass: a remote call rejects, or the gate
\* throws ConnectionUnavailable
RemoteRejects == event'.type = "remote" /\ event'.code # 0
GateThrows ==
  /\ event'.type \in {"probe", "backoff"}
  /\ event'.p \in 1..Len(passes)
  /\ \/ Aborting
     \/ /\ Len(passes') = Len(passes)
        /\ passes'[event'.p].i = FailedPass.i
        /\ passes'[event'.p].gateFailed = FailedPass.gateFailed + 1

\* C35: a pass never ends with an error.  An error raised in a pass is
\* retried by withRetry or caught by the pass: ConnectionUnavailable ends in
\* the re-queue path (the entity is pending again and the 5000 ms timer is
\* armed), any other error in a logged failure of its entity, after which
\* the pass goes on with the next entity or ends because it was the last.
C35_ErrorsCaught ==
  [][ /\ event'.result \in {"", "empty", "snapshot", "fetched", "skipped",
                            "updated", "entityError", "abort"}
      /\ (RemoteRejects \/ GateThrows) =>
           \/ /\ event'.result = ""
              /\ Len(passes') = Len(passes)
              /\ passes'[event'.p].pc = "backoff"
              /\ passes'[event'.p].i = FailedPass.i
           \/ event'.result = "entityError" /\ RemoteRejects
           \/ Aborting /\ GateThrows
      /\ Aborting =>
           /\ Len(passes') = Len(passes) - 1
           /\ MapHas(pendingUpdates', event'.id)
           /\ \E t \in timers' : t.id = batchTimeout' /\ t.due = REQUEUE_DELAY
      /\ event'.result = "entityError" =>
           /\ pendingUpdates' = pendingUpdates
           /\ IF FailedPass.i < Len(FailedPass.updates)
              THEN /\ Len(passes') = Len(passes)
                   /\ passes'[event'.p].i = FailedPass.i + 1
              ELSE Len(passes') = Len(passes) - 1
      /\ Len(passes') < Len(passes) =>
           \/ Aborting
           \/ /\ event'.result \in {"updated", "skipped", "entityError"}
              /\ FailedPass.i = Len(FailedPass.updates) ]_vars

\* the update of the only entity of a pass has failed three times with a
\* transient error: the failure is logged and the pass has ended
C35_Witness ==
  /\ event.result = "entityError" /\ event.code = 500
  /\ event.type = "remote"
  /\ faults = MaxFaults
  /\ Len(passes) = 0
  /\ Len(pendingUpdates) = 0
  /\ Len(updateCalls[event.id]) = MAX_RETRIES

\* ---- C36
\* C36: checkConnections returns a report and does not throw; healthy is
\* true exactly when the gateway status read 0 and checkDatabaseConnection
\* returned true; status.discord is true exactly when the gateway status
\* read 0 (false when the read threw), status.appwrite is what
\* checkDatabaseConnection returned, each whatever the other is.
C36_HealthReport ==
  \A c \in 1..Len(checks) :
    LET r == checks[c]
    IN /\ r.pc \in {"probe", "returned"}
       /\ r.pc = "returned" =>
            /\ r.report.healthy <=> (r.ws = ValueResult(0) /\ r.ret)
            /\ r.report.status.discord <=> (r.ws = ValueResult(0))
            /\ r.report.status.appwrite <=> r.ret

\* three reports: gateway ready and store reachable, gateway read threw and
\* store reachable, gateway ready and probe failed
C36_Witness ==
  /\ Len(checks) = 3
  /\ \A c \in 1..3 : checks[c].pc = "returned"
  /\ checks[1].ws = ValueResult(0) /\ checks[1].ret /\ checks[1].report.healthy
  /\ checks[2].ws.kind = "error" /\ checks[2].ret
  /\ ~checks[2].report.healthy /\ checks[2].report.status.appwrite
  /\ checks[3].ws = ValueResult(0) /\ ~checks[3].ret /\ checks[3].probed
  /\ ~checks[3].report.healthy /\ checks[3].report.status.discord

====
